---- MODULE Spec2Model ----
(***************************************************************************)
(* tap-google-analytics, GoogleAnalyticsStream (tap_google_analytics/      *)
(* client.py): the pagination loop of _request_records with the retry      *)
(* wrapper of _query_api and the error classification of _request_data,    *)
(* the report definition builder, the type lookup and the schema property. *)
(***************************************************************************)
EXTENDS Integers, Sequences, FiniteSets, TLC

(***************************************************************************)
(* Python values.  An Optional is <<>> (None) or <<v>>.  A date string is  *)
(* [fmt, day]: fmt "ymd" is the compact %Y%m%d text, fmt "y-m-d" the       *)
(* dashed %Y-%m-%d text, day the calendar day it denotes (an ordinal).     *)
(***************************************************************************)
None == <<>>

Some(v) == <<v>>

\* Python truthiness of an Optional[str]: None and "" are falsy.
Truthy(tok) == tok # None /\ tok[1] # ""

Min(a, b) == IF a <= b THEN a ELSE b

\* dict.get(key, default) on a dict modelled as a function over its keys.
DictGet(d, key, default) == IF key \in DOMAIN d THEN d[key] ELSE default

(***************************************************************************)
(* Bounds of the model.                                                    *)
(***************************************************************************)
MaxPageSize == 2

MaxMaxRecords == 3

MaxRows == 1

MaxDay == 2

MaxFields == 2

\* total_records and the fetch count are unbounded in the program.  Every
\* comparison the code makes on total_records is against max_records
\* (at most MaxMaxRecords), so a value at or above CountCap behaves like
\* CountCap: the counters saturate there.
CountCap == MaxMaxRecords + MaxPageSize + 1

PageSizes == 1..MaxPageSize

Ceilings == {None} \cup {Some(n) : n \in 0..MaxMaxRecords}

\* Cursor values the server can put in nextPageToken.
TokenTexts == {"", "p1", "p2", "p3", "p4"}

Tokens == {None} \cup {Some(t) : t \in TokenTexts}

DateFormats == {"ymd", "y-m-d"}

DateStrings == [fmt : DateFormats, day : 1..MaxDay]

\* The HttpError instances the remote call can raise: e.resp.status and
\* error_reason(e).
HttpStatuses == {400, 401, 402, 403, 429, 500, 503}

Reasons == {"", "userRateLimitExceeded", "rateLimitExceeded", "quotaExceeded",
            "backendError"}

VARIABLES
    pc,               \* position in _request_records
    start_date,       \* config["start_date"]
    bookmark,         \* state.get("replication_key_value")
    end_date,         \* self.end_date
    self_page_size,   \* self.page_size
    self_max_records, \* self.max_records
    report,           \* self.report
    state_filter,     \* locals of _request_records
    api_report_def,
    page_size,
    max_records,
    next_page_token,
    previous_token,
    finished,
    total_records,
    tries,            \* attempts made by the backoff wrapper in this call
    exc,              \* the exception the last attempt raised, or None
    body,             \* the reportRequests[0] of the last request built
    resp,             \* the response being parsed
    row_i,            \* rows of resp already yielded
    record,           \* the record last yielded to the consumer
    error,            \* the error that ended the extraction, or None
    fetches,          \* calls of _request_data so far (saturating)
    seen,             \* cursors returned so far, while all were fresh
    fresh,            \* every response so far returned a new non-null cursor
    faults,           \* the exceptions the remote call can raise in this run
    dimensions_ref,   \* self.dimensions_ref: name -> type tag
    metrics_ref,      \* self.metrics_ref: name -> type tag
    lookup,           \* the last call of _lookup_data_type and its result
    schema_out,       \* the properties of the last evaluation of schema
    primary_keys,     \* self.primary_keys
    replication_key,  \* self.replication_key
    log,              \* the diagnostics logged so far
    exited,           \* sys.exit(1) was called
    normalized        \* the last call of _normalize_colname and its result

vars == <<pc, start_date, bookmark, end_date, self_page_size, self_max_records,
          report, state_filter, api_report_def, page_size, max_records,
          next_page_token, previous_token, finished, total_records, tries,
          exc, body, resp, row_i, record, error, fetches, seen, fresh, faults,
          dimensions_ref, metrics_ref, lookup, schema_out, primary_keys,
          replication_key, log, exited, normalized>>

\* The variables the pagination loop leaves alone.
synthVars == <<dimensions_ref, metrics_ref, lookup, schema_out, primary_keys,
               replication_key, log, exited, normalized>>


(***************************************************************************)
(* Strings that the code inspects character by character are sequences of  *)
(* one-character strings.                                                  *)
(***************************************************************************)
StartsWith(s, p) == Len(s) >= Len(p) /\ SubSeq(s, 1, Len(p)) = p

EndsWith(s, p) == Len(s) >= Len(p) /\ SubSeq(s, Len(s) - Len(p) + 1, Len(s)) = p

\* str.replace(old, new): every non-overlapping occurrence, left to right.
RECURSIVE Replace(_, _, _)
Replace(s, old, new) ==
    IF s = <<>> THEN <<>>
    ELSE IF StartsWith(s, old)
         THEN new \o Replace(SubSeq(s, Len(old) + 1, Len(s)), old, new)
         ELSE <<Head(s)>> \o Replace(Tail(s), old, new)

sGaColon == <<"g", "a", ":">>

sGaUnder == <<"g", "a", "_">>

sDate == <<"d", "a", "t", "e">>

sCountry == <<"c", "o", "u", "n", "t", "r", "y">>

sSessions == <<"s", "e", "s", "s", "i", "o", "n", "s">>

sUsers == <<"u", "s", "e", "r", "s">>

(***************************************************************************)
(* __init__ and _get_end_date.                                             *)
(***************************************************************************)
\* datetime.strptime(s, fmt): the day, or None for the ValueError.
Strptime(s, fmt) == IF s.fmt = fmt THEN Some(s.day) ELSE None

Strftime(day, fmt) == [fmt |-> fmt, day |-> day]

_get_end_date(config_end_date) ==
    Strftime(Strptime(config_end_date, "y-m-d")[1] - 1, "y-m-d")

(***************************************************************************)
(* _generate_report_definition.  A dict is a function over its keys; a     *)
(* dict whose key order the code iterates (the filter clauses, orderBys)   *)
(* is the sequence of its <<key, value>> items.  The value stored under    *)
(* "filters" carries its Python type, [py, items].                         *)
(***************************************************************************)
OptionalKeys == {"segments", "samplingLevel", "dimensionFilterClauses",
                 "metricFilterClauses", "orderBys", "page_size", "max_records"}

PyDict(items) == [py |-> "dict", items |-> items]

PyList(items) == [py |-> "list", items |-> items]

\* len() of a list or a dict.
PyLen(x) == IF x.py = "list" THEN Len(x.items) ELSE Cardinality(DOMAIN x.items)

\* f"{key}Name"
NameKey(key) == IF key = "dimension" THEN "dimensionName" ELSE "metricName"

\* {f"{key}Name": clause, **payload}
FilterEntry(key, clause, payload) ==
    [k \in {NameKey(key)} \cup DOMAIN payload |->
        IF k \in DOMAIN payload THEN payload[k] ELSE clause]

FilterClauses(key, clauses) ==
    [i \in 1..Len(clauses) |->
        [filters |-> PyDict(FilterEntry(key, clauses[i][1], clauses[i][2]))]]

ToColonForm(name) == Replace(name, sGaUnder, sGaColon)

ReportDefinitionValue(report_def_raw, key) ==
    CASE key = "dimensions" ->
            [i \in 1..Len(report_def_raw.dimensions) |->
                [name |-> ToColonForm(report_def_raw.dimensions[i])]]
      [] key = "metrics" ->
            [i \in 1..Len(report_def_raw.metrics) |->
                [expression |-> ToColonForm(report_def_raw.metrics[i])]]
      [] key = "segments" ->
            [i \in 1..Len(report_def_raw.segments) |->
                [segmentId |-> report_def_raw.segments[i]]]
      [] key = "dimensionFilterClauses" ->
            FilterClauses("dimension", report_def_raw.dimensionFilterClauses)
      [] key = "metricFilterClauses" ->
            FilterClauses("metric", report_def_raw.metricFilterClauses)
      [] key = "orderBys" ->
            [i \in 1..Len(report_def_raw.orderBys) |->
                [fieldName |-> ToColonForm(report_def_raw.orderBys[i][1]),
                 sortOrder |-> report_def_raw.orderBys[i][2]]]
      [] OTHER -> report_def_raw[key]

_generate_report_definition(report_def_raw) ==
    [key \in {"metrics", "dimensions"} \cup (OptionalKeys \cap DOMAIN report_def_raw)
        |-> ReportDefinitionValue(report_def_raw, key)]

(***************************************************************************)
(* _request_data: the classification of an HttpError, and the retry        *)
(* wrapper of _query_api.                                                  *)
(***************************************************************************)
ClassifyStatusFirst(status, reason) ==
    IF status = 400 THEN "InvalidArgument"
    ELSE IF status \in {401, 402} THEN "Authentication"
    ELSE IF status \in {500, 503} THEN "BackendServer"
    ELSE IF reason = "userRateLimitExceeded" \/ reason = "rateLimitExceeded"
    THEN "RateLimit"
    ELSE IF reason = "quotaExceeded" THEN "QuotaExceeded"
    ELSE "Unknown"

Classify(status, reason) ==
    IF reason = "userRateLimitExceeded" \/ reason = "rateLimitExceeded"
    THEN "RateLimit"
    ELSE IF reason = "quotaExceeded" THEN "QuotaExceeded"
    ELSE IF status = 400 THEN "InvalidArgument"
    ELSE IF status \in {401, 402} THEN "Authentication"
    ELSE IF status \in {500, 503} THEN "BackendServer"
    ELSE "Unknown"

Timeout == [type |-> "timeout", status |-> 0, reason |-> ""]

HttpError(status, reason) == [type |-> "HttpError", status |-> status, reason |-> reason]

\* What leaves _request_data for an exception e of _query_api: an HttpError
\* is caught and re-raised classified, a socket.timeout passes through.
RaisedBy(e) == IF e.type = "HttpError" THEN Classify(e.status, e.reason)
               ELSE "SocketTimeout"

\* tap_google_analytics.error.is_fatal_error, the giveup predicate: only a
\* socket timeout and a BackendServer-class error are transient.
is_fatal_error(e) ==
    ~(e.type = "timeout" \/ Classify(e.status, e.reason) = "BackendServer")

max_tries == 9

\* backoff.on_exception: after a failed attempt, the wrapper re-raises when
\* giveup(e) holds or the attempt was number max_tries; else it sleeps and
\* calls again.
GivesUpLate(e, attempt) == is_fatal_error(e) \/ attempt > max_tries

GivesUp(e, attempt) == is_fatal_error(e) \/ attempt = max_tries

(***************************************************************************)
(* _get_state_filter, _query_api's request body, _is_finished,             *)
(* _get_next_page_token and the fixed fields of a record.                  *)
(***************************************************************************)
_get_state_filter(state_bookmark_value, config_start_date) ==
    LET state_bookmark == IF state_bookmark_value # None
                          THEN state_bookmark_value[1] ELSE config_start_date
        parsed == IF Strptime(state_bookmark, "ymd") # None
                  THEN Strptime(state_bookmark, "ymd")[1]
                  ELSE Strptime(state_bookmark, "y-m-d")[1]
    IN  Strftime(parsed, "y-m-d")

view_id == "188392047"

stream_name == "stream"

RequestKeys == {"segments", "dimensionFilterClauses", "metricFilterClauses",
                "orderBys", "samplingLevel"}

QueryBody(report_definition, filter, pageToken, default_page_size, endDate) ==
    [k \in {"viewId", "startDate", "endDate", "pageSize", "pageToken",
            "metrics", "dimensions"} \cup (RequestKeys \cap DOMAIN report_definition) |->
        CASE k = "viewId" -> view_id
          [] k = "startDate" -> filter
          [] k = "endDate" -> endDate
          [] k = "pageSize" -> DictGet(report_definition, "page_size", default_page_size)
          [] k = "pageToken" -> pageToken
          [] OTHER -> report_definition[k]]

_is_finished_no_ceiling(token, total, ceiling) == ~Truthy(token)

_is_finished_strict(token, total, ceiling) ==
    IF ~Truthy(token) THEN TRUE
    ELSE IF ceiling = None THEN FALSE
    ELSE total > ceiling[1]

_is_finished(token, total, ceiling) ==
    IF ~Truthy(token) THEN TRUE
    ELSE IF ceiling = None THEN FALSE
    ELSE total >= ceiling[1]

_get_next_page_token(response) == response.nextPageToken

\* The fields _parse_response puts in every record.
RecordFields(config_start_date, endDate) ==
    [view_id |-> view_id, stream |-> stream_name,
     report_start_date |-> config_start_date, report_end_date |-> endDate]

(***************************************************************************)
(* The texts the code names or tests for, and str.isupper / str.lower on   *)
(* one character.                                                          *)
(***************************************************************************)
sSegment == <<"s", "e", "g", "m", "e", "n", "t">>

sDimension == <<"d", "i", "m", "e", "n", "s", "i", "o", "n">>

sCustomVarName == <<"c", "u", "s", "t", "o", "m", "V", "a", "r", "N", "a", "m", "e">>

sCustomVarValue == <<"c", "u", "s", "t", "o", "m", "V", "a", "r", "V", "a", "l", "u", "e">>

sGoal == <<"g", "o", "a", "l">>

sSearchGoal == <<"s", "e", "a", "r", "c", "h", "G", "o", "a", "l">>

sMetric == <<"m", "e", "t", "r", "i", "c">>

sCalcMetric == <<"c", "a", "l", "c", "M", "e", "t", "r", "i", "c">>

sStarts == <<"S", "t", "a", "r", "t", "s">>

sCompletions == <<"C", "o", "m", "p", "l", "e", "t", "i", "o", "n", "s">>

sValue == <<"V", "a", "l", "u", "e">>

sConversionRate == <<"C", "o", "n", "v", "e", "r", "s", "i", "o", "n", "R", "a", "t", "e">>

sAbandons == <<"A", "b", "a", "n", "d", "o", "n", "s">>

sAbandonRate == <<"A", "b", "a", "n", "d", "o", "n", "R", "a", "t", "e">>

sAll == <<"A", "l", "l">>

sYearMonth == <<"y", "e", "a", "r", "M", "o", "n", "t", "h">>

sBounceRate == <<"b", "o", "u", "n", "c", "e", "R", "a", "t", "e">>

sOne == <<"1">>

sViewId == <<"v", "i", "e", "w", "_", "i", "d">>

sStream == <<"s", "t", "r", "e", "a", "m">>

sGaDate == <<"g", "a", "_", "d", "a", "t", "e">>

sGaDateDt == <<"g", "a", "_", "d", "a", "t", "e", "_", "d", "t">>

sReportStartDate == <<"r", "e", "p", "o", "r", "t", "_", "s", "t", "a", "r", "t", "_", "d", "a", "t", "e">>

sReportEndDate == <<"r", "e", "p", "o", "r", "t", "_", "e", "n", "d", "_", "d", "a", "t", "e">>

sMegaX == <<"_", "m", "e", "g", "a", "_", "x">>

UpperCase == {"A", "B", "C", "D", "E", "F", "G", "H", "I", "J", "K", "L", "M", "N", "O", "P", "Q", "R", "S", "T", "U", "V", "W", "X", "Y", "Z"}

LowerOf(c) ==
    CASE c = "A" -> "a"
      [] c = "B" -> "b"
      [] c = "C" -> "c"
      [] c = "D" -> "d"
      [] c = "E" -> "e"
      [] c = "F" -> "f"
      [] c = "G" -> "g"
      [] c = "H" -> "h"
      [] c = "I" -> "i"
      [] c = "J" -> "j"
      [] c = "K" -> "k"
      [] c = "L" -> "l"
      [] c = "M" -> "m"
      [] c = "N" -> "n"
      [] c = "O" -> "o"
      [] c = "P" -> "p"
      [] c = "Q" -> "q"
      [] c = "R" -> "r"
      [] c = "S" -> "s"
      [] c = "T" -> "t"
      [] c = "U" -> "u"
      [] c = "V" -> "v"
      [] c = "W" -> "w"
      [] c = "X" -> "x"
      [] c = "Y" -> "y"
      [] c = "Z" -> "z"
      [] OTHER -> c

IsUpper(c) == c \in UpperCase

\* str.lstrip("_")
RECURSIVE LStripUnderscore(_)
LStripUnderscore(s) ==
    IF s # <<>> /\ Head(s) = "_" THEN LStripUnderscore(Tail(s)) ELSE s

\* "".join(["_" + c.lower() if c.isupper() else c for c in colname])
RECURSIVE SnakeCase(_)
SnakeCase(s) ==
    IF s = <<>> THEN <<>>
    ELSE (IF IsUpper(Head(s)) THEN <<"_", LowerOf(Head(s))>> ELSE <<Head(s)>>)
         \o SnakeCase(Tail(s))

_normalize_colname(colname) ==
    LStripUnderscore(SnakeCase(Replace(colname, sGaColon, sGaUnder)))

(***************************************************************************)
(* _lookup_data_type.  A reference catalog is a function from the names it *)
(* lists to their type tags; "SystemExit" stands for sys.exit(1).          *)
(***************************************************************************)
_parse_other_attrb_type(attr_type) ==
    IF attr_type = "INTEGER" THEN "integer"
    ELSE IF attr_type = "FLOAT" \/ attr_type = "PERCENT" \/ attr_type = "TIME"
    THEN "number"
    ELSE "string"

_parse_dimension_type(attribute, dim_ref) ==
    IF attribute = sGaColon \o sSegment THEN "string"
    ELSE IF \/ StartsWith(attribute, sGaColon \o sDimension)
            \/ StartsWith(attribute, sGaColon \o sCustomVarName)
            \/ StartsWith(attribute, sGaColon \o sCustomVarValue)
    THEN "string"
    ELSE IF attribute \in DOMAIN dim_ref
    THEN _parse_other_attrb_type(dim_ref[attribute])
    ELSE "SystemExit"

GoalSuffixes == {sStarts, sCompletions, sValue, sConversionRate, sAbandons, sAbandonRate}

_parse_metric_type_catalog_first(attribute, met_ref) ==
    IF attribute \in DOMAIN met_ref
    THEN _parse_other_attrb_type(met_ref[attribute])
    ELSE IF /\ StartsWith(attribute, sGaColon \o sGoal)
            /\ \E suffix \in GoalSuffixes : EndsWith(attribute, suffix)
    THEN "string"
    ELSE IF /\ StartsWith(attribute, sGaColon \o sSearchGoal)
            /\ EndsWith(attribute, sConversionRate)
    THEN "string"
    ELSE IF \/ StartsWith(attribute, sGaColon \o sMetric)
            \/ StartsWith(attribute, sGaColon \o sCalcMetric)
    THEN "string"
    ELSE "SystemExit"

_parse_metric_type(attribute, met_ref) ==
    IF /\ StartsWith(attribute, sGaColon \o sGoal)
       /\ \E suffix \in GoalSuffixes : EndsWith(attribute, suffix)
    THEN "string"
    ELSE IF /\ StartsWith(attribute, sGaColon \o sSearchGoal)
            /\ EndsWith(attribute, sConversionRate)
    THEN "string"
    ELSE IF \/ StartsWith(attribute, sGaColon \o sMetric)
            \/ StartsWith(attribute, sGaColon \o sCalcMetric)
    THEN "string"
    ELSE IF attribute \in DOMAIN met_ref
    THEN _parse_other_attrb_type(met_ref[attribute])
    ELSE "SystemExit"

_lookup_data_type(type, attribute, dim_ref, met_ref) ==
    IF type = "dimension" THEN _parse_dimension_type(attribute, dim_ref)
    ELSE IF type = "metric" THEN _parse_metric_type(attribute, met_ref)
    ELSE "SystemExit"

(***************************************************************************)
(* The extraction of one stream: _request_records, one action per step     *)
(* between two points where the generator or the remote call suspends.     *)
(***************************************************************************)
BaseReport == [dimensions |-> <<sGaColon \o sDate>>, metrics |-> <<sGaColon \o sSessions>>]

PagingReport(size, ceiling) ==
    [k \in {"dimensions", "metrics", "page_size", "max_records"} |->
        CASE k = "page_size" -> size
          [] k = "max_records" -> ceiling
          [] OTHER -> BaseReport[k]]

\* The reference catalogs of the stream of BaseReport.
BaseCatalogs ==
    /\ dimensions_ref = [n \in {sGaColon \o sDate} |-> "STRING"]
    /\ metrics_ref = [n \in {sGaColon \o sSessions} |-> "INTEGER"]

\* The state after __init__, before get_records is called: everything but
\* self.report and the reference catalogs.
ConfigInit(size, ceiling, config_start, state_bookmark, may_raise) ==
    /\ pc = "init"
    /\ faults = may_raise
    /\ start_date = config_start
    /\ bookmark = state_bookmark
    /\ end_date = _get_end_date(Strftime(MaxDay + 2, "y-m-d"))
    /\ self_page_size = size
    /\ self_max_records = ceiling
    /\ state_filter = None
    /\ api_report_def = None
    /\ page_size = 0
    /\ max_records = None
    /\ next_page_token = None
    /\ previous_token = None
    /\ finished = FALSE
    /\ total_records = 0
    /\ tries = 0
    /\ exc = None
    /\ body = None
    /\ resp = None
    /\ row_i = 0
    /\ record = None
    /\ error = None
    /\ fetches = 0
    /\ seen = {}
    /\ fresh = TRUE
    /\ lookup = None
    /\ schema_out = None
    /\ primary_keys = <<>>
    /\ replication_key = None
    /\ log = {}
    /\ exited = FALSE
    /\ normalized = None

\* The page size and ceiling come from the config, or the report overrides
\* the config's.
StreamInit(size, ceiling, in_report, config_start, state_bookmark, may_raise) ==
    /\ ConfigInit(IF in_report THEN MaxPageSize ELSE size,
                  IF in_report THEN None ELSE ceiling,
                  config_start, state_bookmark, may_raise)
    /\ report = IF in_report THEN PagingReport(size, ceiling[1]) ELSE BaseReport

AllFaults ==
    {Timeout} \cup {HttpError(status, reason) : status \in HttpStatuses, reason \in Reasons}

\* One transient and one fatal HttpError, a rate limit and the timeout.
CommonFaults ==
    {Timeout, HttpError(503, ""), HttpError(401, ""), HttpError(403, "rateLimitExceeded")}

\* Every page size and ceiling, set in the config or in the report.
Init ==
    \E size \in PageSizes, ceiling \in Ceilings, in_report \in BOOLEAN :
        /\ in_report => ceiling # None
        /\ StreamInit(size, ceiling, in_report, Strftime(1, "y-m-d"), None, CommonFaults)
        /\ BaseCatalogs

\* Every exception of the remote call, on a stream of at most two pages.
ErrorInit ==
    \E size \in PageSizes :
        /\ StreamInit(size, Some(2), FALSE, Strftime(1, "y-m-d"), None, AllFaults)
        /\ BaseCatalogs

\* Every start date (dashed, as the config gives it) and every bookmark
\* (compact or dashed), on a stream of at most two pages.
DateInit ==
    \E config_day \in 1..MaxDay,
       state_bookmark \in {None} \cup {Some(d) : d \in DateStrings} :
        /\ StreamInit(1, Some(2), FALSE, Strftime(config_day, "y-m-d"), state_bookmark,
                      CommonFaults)
        /\ BaseCatalogs

\* Lines 237-245.
StartRequestRecords ==
    /\ pc = "init"
    /\ next_page_token' = None
    /\ finished' = FALSE
    /\ total_records' = 0
    /\ state_filter' = _get_state_filter(bookmark, start_date)
    /\ api_report_def' = _generate_report_definition(report)
    /\ page_size' = DictGet(report, "page_size", self_page_size)
    /\ max_records' = IF "max_records" \in DOMAIN report
                      THEN Some(report["max_records"]) ELSE self_max_records
    /\ pc' = "loop"
    /\ UNCHANGED <<start_date, bookmark, end_date, self_page_size, self_max_records,
                   report, previous_token, tries, exc, body, resp, row_i, record,
                   error, fetches, seen, fresh, faults>>
    /\ UNCHANGED synthVars

\* The request carries the cursor of the response before the last one.
RequestDataStaleCursor ==
    /\ pc = "loop"
    /\ ~finished
    /\ body' = QueryBody(api_report_def, state_filter, previous_token,
                         self_page_size, end_date)
    /\ tries' = 0
    /\ exc' = None
    /\ fetches' = Min(fetches + 1, CountCap)
    /\ pc' = "call"
    /\ UNCHANGED <<start_date, bookmark, end_date, self_page_size, self_max_records,
                   report, state_filter, api_report_def, page_size, max_records,
                   next_page_token, previous_token, finished, total_records,
                   resp, row_i, record, error, seen, fresh, faults>>
    /\ UNCHANGED synthVars

\* Lines 247-252 and 390-415: the loop test, the call of _request_data and
\* the request body _query_api builds.
RequestData ==
    /\ pc = "loop"
    /\ ~finished
    /\ body' = QueryBody(api_report_def, state_filter, next_page_token,
                         self_page_size, end_date)
    /\ tries' = 0
    /\ exc' = None
    /\ fetches' = Min(fetches + 1, CountCap)
    /\ pc' = "call"
    /\ UNCHANGED <<start_date, bookmark, end_date, self_page_size, self_max_records,
                   report, state_filter, api_report_def, page_size, max_records,
                   next_page_token, previous_token, finished, total_records,
                   resp, row_i, record, error, seen, fresh, faults>>
    /\ UNCHANGED synthVars

\* Lines 247 and 265: the loop ends, the generator is exhausted.
Finish ==
    /\ pc = "loop"
    /\ finished
    /\ pc' = "done"
    /\ UNCHANGED <<start_date, bookmark, end_date, self_page_size, self_max_records,
                   report, state_filter, api_report_def, page_size, max_records,
                   next_page_token, previous_token, finished, total_records, tries,
                   exc, body, resp, row_i, record, error, fetches, seen, fresh, faults>>
    /\ UNCHANGED synthVars

\* Lines 417-421 and 172: execute() returns a response.
ExecuteOk ==
    /\ pc = "call"
    /\ \E token \in Tokens, n \in 0..MaxRows :
        /\ resp' = Some([nextPageToken |-> token, rows |-> n])
        /\ fresh' = (fresh /\ token # None /\ token \notin seen)
        /\ seen' = IF fresh' THEN seen \cup {token} ELSE {}
    /\ tries' = 0                \* the wrapper returns, its count ends with it
    /\ exc' = None
    /\ row_i' = 0
    /\ pc' = "parse"
    /\ UNCHANGED <<start_date, bookmark, end_date, self_page_size, self_max_records,
                   report, state_filter, api_report_def, page_size, max_records,
                   next_page_token, previous_token, finished, total_records,
                   body, record, error, fetches, faults>>
    /\ UNCHANGED synthVars

\* An attempt of execute() raised e: lines 379-381 (the wrapper retries or
\* re-raises) and 173-207 (_request_data classifies what is re-raised).
AttemptFailed(e) ==
    /\ tries' = tries + 1
    /\ exc' = Some(e)
    /\ IF GivesUp(e, tries + 1)
       THEN pc' = "failed" /\ error' = Some(RaisedBy(e))
       ELSE pc' = "call" /\ error' = error
    /\ UNCHANGED <<start_date, bookmark, end_date, self_page_size, self_max_records,
                   report, state_filter, api_report_def, page_size, max_records,
                   next_page_token, previous_token, finished, total_records,
                   body, resp, row_i, record, fetches, seen, fresh, faults>>
    /\ UNCHANGED synthVars

ExecuteHttpError ==
    /\ pc = "call"
    /\ \E e \in faults :
        /\ e.type = "HttpError"
        /\ AttemptFailed(e)

ExecuteTimeout ==
    /\ pc = "call"
    /\ Timeout \in faults
    /\ AttemptFailed(Timeout)

\* Lines 253-254 and 320-377: the next row of the page is yielded.
YieldRecord ==
    /\ pc = "parse"
    /\ row_i < resp[1].rows
    /\ record' = Some(RecordFields(start_date, end_date))
    /\ row_i' = row_i + 1
    /\ UNCHANGED <<pc, start_date, bookmark, end_date, self_page_size,
                   self_max_records, report, state_filter, api_report_def,
                   page_size, max_records, next_page_token, previous_token,
                   finished, total_records, tries, exc, body, resp, error,
                   fetches, seen, fresh, faults>>
    /\ UNCHANGED synthVars

\* Lines 258-265: the loop check comes first, then the termination test.
PageOutcomeCheckedLast(token, previous, total, ceiling) ==
    IF _is_finished(token, total, ceiling) THEN "finished"
    ELSE IF Truthy(token) /\ token = previous THEN "raise"
    ELSE "continue"

PageOutcome(token, previous, total, ceiling) ==
    IF Truthy(token) /\ token = previous THEN "raise"
    ELSE IF _is_finished(token, total, ceiling) THEN "finished"
    ELSE "continue"

\* Lines 255-269: the page is exhausted; the cursor moves on, the counter
\* grows by the page size, then the loop check and the termination test.
AdvancePage ==
    /\ pc = "parse"
    /\ row_i = resp[1].rows
    /\ previous_token' = next_page_token
    /\ next_page_token' = _get_next_page_token(resp[1])
    /\ total_records' = Min(total_records + page_size, CountCap)
    /\ LET outcome == PageOutcome(next_page_token', previous_token',
                                  total_records', max_records)
       IN  IF outcome = "raise"
           THEN /\ pc' = "failed"
                /\ error' = Some("PaginationLoop")
                /\ finished' = finished
           ELSE /\ pc' = "loop"
                /\ error' = error
                /\ finished' = (outcome = "finished")
    /\ UNCHANGED <<start_date, bookmark, end_date, self_page_size, self_max_records,
                   report, state_filter, api_report_def, page_size, max_records,
                   tries, exc, body, resp, row_i, record, fetches, seen, fresh,
                   faults>>
    /\ UNCHANGED synthVars

Next ==
    \/ StartRequestRecords
    \/ RequestData
    \/ ExecuteOk
    \/ ExecuteHttpError
    \/ ExecuteTimeout
    \/ YieldRecord
    \/ AdvancePage
    \/ Finish

Spec == Init /\ [][Next]_vars

\* The remote call returns or raises, and the consumer keeps pulling
\* records: a step that can be taken is taken.
FairSpec == Spec /\ WF_vars(Next)

ErrorSpec == ErrorInit /\ [][Next]_vars

DateSpec == DateInit /\ [][Next]_vars

(***************************************************************************)
(* Type inference on its own: every catalog of a small family, every kind  *)
(* and every name of a list that holds each pattern rule's names, names    *)
(* the catalog decides and names nothing knows.                            *)
(***************************************************************************)
PatternDimensions ==
    {sGaColon \o sSegment, sGaColon \o sDimension \o sOne,
     sGaColon \o sCustomVarName \o sOne, sGaColon \o sCustomVarValue \o sOne}

PlainDimensions == {sGaColon \o sDate, sGaColon \o sCountry}

PatternMetrics ==
    {sGaColon \o sGoal \o sOne \o suffix : suffix \in GoalSuffixes}
    \cup {sGaColon \o sSearchGoal \o sOne \o sConversionRate,
          sGaColon \o sMetric \o sOne, sGaColon \o sCalcMetric \o sMegaX}

PlainMetrics ==
    {sGaColon \o sGoal \o sCompletions \o sAll, sGaColon \o sSessions,
     sGaColon \o sBounceRate}

AttributeNames == PatternDimensions \cup PlainDimensions \cup PatternMetrics \cup PlainMetrics

TypeTags == {"INTEGER", "FLOAT", "PERCENT", "TIME", "STRING", "CURRENCY"}

\* The names a catalog of the family may list: pattern names among them.
DimensionCatalogNames == {sGaColon \o sSegment, sGaColon \o sDate, sGaColon \o sSessions}

MetricCatalogNames ==
    {sGaColon \o sGoal \o sOne \o sStarts, sGaColon \o sGoal \o sCompletions \o sAll,
     sGaColon \o sSessions}

TypeInit ==
    /\ StreamInit(1, None, FALSE, Strftime(1, "y-m-d"), None, {})
    /\ \E tag \in TypeTags, dims \in SUBSET DimensionCatalogNames,
          mets \in SUBSET MetricCatalogNames :
        /\ dimensions_ref = [n \in dims |-> tag]
        /\ metrics_ref = [n \in mets |-> tag]

pagingVars == <<pc, start_date, bookmark, end_date, self_page_size, self_max_records,
                state_filter, page_size, max_records, next_page_token,
                previous_token, finished, total_records, tries, exc, body, resp,
                row_i, record, error, fetches, seen, fresh, faults>>

\* Lines 102-110, with the logger.critical and sys.exit(1) of lines 61-62,
\* 89-90 and 109-110.
LookupDataType ==
    /\ ~exited
    /\ \E type \in {"dimension", "metric", "segment"}, attribute \in AttributeNames :
        LET result == _lookup_data_type(type, attribute, dimensions_ref, metrics_ref)
        IN  /\ lookup' = Some([type |-> type, attribute |-> attribute, result |-> result])
            /\ exited' = (result = "SystemExit")
            /\ log' = IF result = "SystemExit" THEN log \cup {"Unsuported GA type"} ELSE log
    /\ UNCHANGED <<pagingVars, report, api_report_def, dimensions_ref, metrics_ref,
                   schema_out, primary_keys, replication_key, normalized>>

TypeNext == LookupDataType

TypeSpec == TypeInit /\ [][TypeNext]_vars

(***************************************************************************)
(* The report definition builder on its own: every list of up to MaxFields *)
(* dimensions and metrics, in colon form or as underscore alias, and every *)
(* set of optional keys.                                                   *)
(***************************************************************************)
ReportDimensionNames == {sGaColon \o sDate, sGaUnder \o sCountry}

\* ga:calcMetric_<NAME> is the API's form of a calculated metric.
ReportMetricNames ==
    {sGaColon \o sSessions, sGaUnder \o sUsers, sGaColon \o sCalcMetric \o sMegaX}

Lists(names) == UNION {[1..n -> names] : n \in 1..MaxFields}

DimensionFilters ==
    {<<<<sGaColon \o sCountry, [operator |-> "EXACT", expressions |-> <<"United States">>]>>>>,
     <<<<sGaColon \o sCountry, [operator |-> "EXACT", expressions |-> <<"United States">>]>>,
       <<sGaColon \o sDate, [operator |-> "REGEXP", expressions |-> <<"^2024">>]>>>>}

MetricFilters ==
    {<<<<sGaColon \o sSessions, [operator |-> "GREATER_THAN", comparisonValue |-> "2"]>>>>}

OptionalValue(key, dimension_filters) ==
    CASE key = "segments" -> <<"gaid::-1", "gaid::-2">>
      [] key = "samplingLevel" -> "LARGE"
      [] key = "dimensionFilterClauses" -> dimension_filters
      [] key = "metricFilterClauses" -> CHOOSE f \in MetricFilters : TRUE
      [] key = "orderBys" -> <<<<sGaUnder \o sSessions, "DESCENDING">>,
                               <<sGaColon \o sUsers, "ASCENDING">>>>
      [] key = "page_size" -> 1
      [] key = "max_records" -> 2

ReportInit ==
    /\ ConfigInit(1, None, Strftime(1, "y-m-d"), None, {})
    /\ BaseCatalogs
    /\ \E dimensions \in Lists(ReportDimensionNames), metrics \in Lists(ReportMetricNames),
          keys \in SUBSET OptionalKeys, dimension_filters \in DimensionFilters :
        /\ "dimensionFilterClauses" \notin keys
              => dimension_filters = CHOOSE f \in DimensionFilters : Len(f) = 1
        /\ report = [k \in {"dimensions", "metrics"} \cup keys |->
                        CASE k = "dimensions" -> dimensions
                          [] k = "metrics" -> metrics
                          [] OTHER -> OptionalValue(k, dimension_filters)]

\* Lines 112-166: the static method, called on self.report.
GenerateReportDefinition ==
    /\ api_report_def' = _generate_report_definition(report)
    /\ UNCHANGED <<pagingVars, report, synthVars>>

ReportNext == GenerateReportDefinition

ReportSpec == ReportInit /\ [][ReportNext]_vars

(***************************************************************************)
(* The schema property.  A th.Property is [name, type, required]; the      *)
(* evaluation runs over the dimensions, then the metrics, and stops at the *)
(* first sys.exit(1) of the type lookup.                                   *)
(***************************************************************************)
Property(name, type, required) == [name |-> name, type |-> type, required |-> required]

\* A number is declared as a string.
_get_datatype_integer_only(string_type) ==
    IF string_type = "integer" THEN "integer" ELSE "string"

\* Lines 423-430.
_get_datatype(string_type) ==
    IF string_type \in {"string", "integer", "number"} THEN string_type ELSE "string"

\* Lines 455-465.
SchemaStart(current_replication_key) ==
    [properties |-> <<Property(sViewId, "string", TRUE), Property(sStream, "string", TRUE)>>,
     primary_keys |-> <<sViewId>>,
     date_dimension_included |-> FALSE,
     replication_key |-> current_replication_key,
     exited |-> FALSE]

\* Lines 469-477.
DateBranch(acc, dimension) ==
    IF dimension = sGaColon \o sDate
    THEN [acc EXCEPT !.date_dimension_included = TRUE,
                     !.replication_key = Some(sGaDate),
                     !.properties = Append(@, Property(sGaDateDt, "date", TRUE))]
    ELSE acc

\* Lines 481-494.
YearMonthBranch(acc, dimension) ==
    IF dimension = sGaColon \o sYearMonth
    THEN [acc EXCEPT !.date_dimension_included = TRUE,
                     !.replication_key = Some(sGaDate),
                     !.primary_keys = Append(@, sGaDate),
                     !.properties = @ \o <<Property(sGaDate, "string", TRUE),
                                           Property(sGaDateDt, "date", TRUE)>>]
    ELSE acc

\* Lines 496-503.
DeclareDimension(acc, dimension, dim_ref, met_ref) ==
    LET data_type == _lookup_data_type("dimension", dimension, dim_ref, met_ref)
    IN  IF data_type = "SystemExit" THEN [acc EXCEPT !.exited = TRUE]
        ELSE [acc EXCEPT
                !.properties = Append(@, Property(_normalize_colname(dimension),
                                                  _get_datatype(data_type), TRUE)),
                !.primary_keys = Append(@, _normalize_colname(dimension))]

\* The date branch sets the replication key and forgets the flag.
AddDimensionFlagForgotten(acc, dimension, dim_ref, met_ref) ==
    DeclareDimension(
        YearMonthBranch(
            [DateBranch(acc, dimension) EXCEPT
                !.date_dimension_included = acc.date_dimension_included],
            dimension),
        dimension, dim_ref, met_ref)

\* Lines 468-503: one pass of the loop over the dimensions.
AddDimension(acc, dimension, dim_ref, met_ref) ==
    DeclareDimension(YearMonthBranch(DateBranch(acc, dimension), dimension),
                     dimension, dim_ref, met_ref)

\* Lines 506-511: one pass of the loop over the metrics.
AddMetric(acc, metric, dim_ref, met_ref) ==
    LET data_type == _lookup_data_type("metric", metric, dim_ref, met_ref)
    IN  IF data_type = "SystemExit" THEN [acc EXCEPT !.exited = TRUE]
        ELSE [acc EXCEPT
                !.properties = Append(@, Property(_normalize_colname(metric),
                                                  _get_datatype(data_type), FALSE))]

RECURSIVE SchemaDimensions(_, _, _, _)
SchemaDimensions(acc, dimensions, dim_ref, met_ref) ==
    IF dimensions = <<>> \/ acc.exited THEN acc
    ELSE SchemaDimensions(AddDimension(acc, Head(dimensions), dim_ref, met_ref),
                          Tail(dimensions), dim_ref, met_ref)

RECURSIVE SchemaMetrics(_, _, _, _)
SchemaMetrics(acc, metrics, dim_ref, met_ref) ==
    IF metrics = <<>> \/ acc.exited THEN acc
    ELSE SchemaMetrics(AddMetric(acc, Head(metrics), dim_ref, met_ref),
                       Tail(metrics), dim_ref, met_ref)

\* Lines 513-530.
SchemaEnd(acc) ==
    IF acc.exited THEN acc
    ELSE [acc EXCEPT
            !.properties = @ \o <<Property(sReportStartDate, "date", TRUE),
                                  Property(sReportEndDate, "date", TRUE)>>,
            !.primary_keys = IF acc.date_dimension_included THEN @
                             ELSE @ \o <<sReportStartDate, sReportEndDate>>]

SchemaEval(report_def_raw, dim_ref, met_ref, current_replication_key) ==
    SchemaEnd(
        SchemaMetrics(
            SchemaDimensions(SchemaStart(current_replication_key),
                             report_def_raw["dimensions"], dim_ref, met_ref),
            report_def_raw["metrics"], dim_ref, met_ref))

\* Lines 448-532: one evaluation of the property.  An exit leaves
\* self.primary_keys as it was; self.replication_key is set inside the loop.
EvaluateSchema ==
    /\ ~exited
    /\ LET r == SchemaEval(report, dimensions_ref, metrics_ref, replication_key)
       IN  /\ replication_key' = r.replication_key
           /\ exited' = r.exited
           /\ primary_keys' = IF r.exited THEN primary_keys ELSE r.primary_keys
           /\ schema_out' = IF r.exited THEN schema_out ELSE Some(r.properties)
           /\ log' = log \cup
                     (IF r.exited THEN {"Unsuported GA type"}
                      ELSE IF ~r.date_dimension_included
                      THEN {"Incremental sync not supported"}
                      ELSE {})
    /\ UNCHANGED <<pagingVars, report, api_report_def, dimensions_ref, metrics_ref,
                   lookup, normalized>>

SchemaDimensionNames ==
    {sGaColon \o sDate, sGaColon \o sYearMonth, sGaColon \o sCountry,
     sGaColon \o sDimension \o sOne}

SchemaMetricNames == {sGaColon \o sSessions, sGaColon \o sBounceRate}

\* Every list of up to MaxFields dimensions and metrics; the catalogs list
\* every name, or lack ga:country and ga:bounceRate.
SchemaInit ==
    /\ ConfigInit(1, None, Strftime(1, "y-m-d"), None, {})
    /\ \E dimensions \in Lists(SchemaDimensionNames), metrics \in Lists(SchemaMetricNames),
          complete \in BOOLEAN :
        /\ report = [dimensions |-> dimensions, metrics |-> metrics]
        /\ dimensions_ref =
              [n \in {sGaColon \o sDate, sGaColon \o sYearMonth}
                     \cup (IF complete THEN {sGaColon \o sCountry} ELSE {}) |-> "STRING"]
        /\ metrics_ref =
              [n \in {sGaColon \o sSessions}
                     \cup (IF complete THEN {sGaColon \o sBounceRate} ELSE {}) |->
                  IF n = sGaColon \o sSessions THEN "INTEGER" ELSE "PERCENT"]

SchemaNext == EvaluateSchema

SchemaSpec == SchemaInit /\ [][SchemaNext]_vars

(***************************************************************************)
(* _parse_response.  A value of the API is a string: a date "%Y%m%d", a    *)
(* month "%Y%m" or a digit string, written [fmt, day] with the number it   *)
(* spells.  A value of a record is [py, raw]: the Python type the coercion *)
(* gave it and the string it was made from.  Here a record is a function   *)
(* from its column names, spelled out, to these values.                    *)
(***************************************************************************)
sGaYearMonth == <<"g", "a", "_", "y", "e", "a", "r", "_", "m", "o", "n", "t", "h">>

\* strftime("%Y%m01") of a month: months are MonthLength days long.
MonthLength == 2

FirstDayOf(month) == (month - 1) * MonthLength + 1

\* record[key] = value: a later assignment replaces an earlier one.
Put(rec, key, value) == (key :> value) @@ rec

PyStr(raw) == [py |-> "str", raw |-> raw]

\* Lines 337-342 and 365-368: int(...), round(float(...), 10), or as it is.
Coerce(data_type, raw) ==
    IF data_type = "integer" THEN [py |-> "int", raw |-> raw]
    ELSE IF data_type = "number" THEN [py |-> "float", raw |-> raw]
    ELSE PyStr(raw)

\* Lines 346-350.
AppendDateDt(rec, header, dimension) ==
    IF _normalize_colname(header) = sGaDate
    THEN Put(rec, sGaDateDt, PyStr(Strftime(Strptime(dimension, "ymd")[1], "y-m-d")))
    ELSE rec

\* Lines 353-360.
AppendYearMonthDates(rec, header, dimension) ==
    IF _normalize_colname(header) = sGaYearMonth
    THEN LET ga_date == Strftime(FirstDayOf(Strptime(dimension, "ym")[1]), "ymd")
         IN  Put(Put(rec, sGaDate, PyStr(ga_date)),
                 sGaDateDt, PyStr(Strftime(Strptime(ga_date, "ymd")[1], "y-m-d")))
    ELSE rec

\* Lines 332-360: one pass of the loop over zip(dimensionHeaders, dimensions).
ParseDimension(acc, header, dimension, dim_ref, met_ref) ==
    LET data_type == _lookup_data_type("dimension", header, dim_ref, met_ref)
    IN  IF data_type = "SystemExit" THEN [acc EXCEPT !.exited = TRUE]
        ELSE [acc EXCEPT !.record =
                AppendYearMonthDates(
                    AppendDateDt(
                        Put(@, _normalize_colname(header), Coerce(data_type, dimension)),
                        header, dimension),
                    header, dimension)]

\* Lines 363-370: one pass of the loop over zip(metricHeaders, values).
ParseMetric(acc, metric_name, value, dim_ref, met_ref) ==
    LET metric_type == _lookup_data_type("metric", metric_name, dim_ref, met_ref)
    IN  IF metric_type = "SystemExit" THEN [acc EXCEPT !.exited = TRUE]
        ELSE [acc EXCEPT !.record =
                Put(@, _normalize_colname(metric_name), Coerce(metric_type, value))]

\* zip stops at the shorter of the two.
RECURSIVE ParseDimensions(_, _, _, _, _)
ParseDimensions(acc, headers, dimensions, dim_ref, met_ref) ==
    IF headers = <<>> \/ dimensions = <<>> \/ acc.exited THEN acc
    ELSE ParseDimensions(
             ParseDimension(acc, Head(headers), Head(dimensions), dim_ref, met_ref),
             Tail(headers), Tail(dimensions), dim_ref, met_ref)

RECURSIVE ParseMetrics(_, _, _, _, _)
ParseMetrics(acc, headers, values, dim_ref, met_ref) ==
    IF headers = <<>> \/ values = <<>> \/ acc.exited THEN acc
    ELSE ParseMetrics(
             ParseMetric(acc, Head(headers), Head(values), dim_ref, met_ref),
             Tail(headers), Tail(values), dim_ref, met_ref)

\* Line 362: the loop over the date ranges of the row.
RECURSIVE ParseDateRanges(_, _, _, _, _)
ParseDateRanges(acc, headers, dateRangeValues, dim_ref, met_ref) ==
    IF dateRangeValues = <<>> \/ acc.exited THEN acc
    ELSE ParseDateRanges(
             ParseMetrics(acc, headers, Head(dateRangeValues), dim_ref, met_ref),
             headers, Tail(dateRangeValues), dim_ref, met_ref)

\* Lines 320-377: the record of one row.
ParseRow(dimensionHeaders, metricHeaders, row, dim_ref, met_ref, config_start_date, endDate) ==
    LET start == [record |-> Put(Put(<<>>, sViewId, PyStr(view_id)),
                                 sStream, PyStr(stream_name)),
                  exited |-> FALSE]
        filled == ParseDateRanges(
                      ParseDimensions(start, dimensionHeaders, row.dimensions,
                                      dim_ref, met_ref),
                      metricHeaders, row.metrics, dim_ref, met_ref)
    IN  IF filled.exited THEN filled
        ELSE [filled EXCEPT !.record =
                Put(Put(@, sReportStartDate, PyStr(config_start_date)),
                    sReportEndDate, PyStr(endDate))]

(***************************************************************************)
(* Parsing on its own: every report of up to MaxFields dimensions and      *)
(* metrics, a catalog that lists them all, the schema evaluated before any *)
(* record, and a page of one row whose column headers are the report's     *)
(* dimensions and metrics.                                                 *)
(***************************************************************************)
\* The string the API sends for a field.
RawValue(name, n) ==
    IF name = sGaColon \o sDate THEN Strftime(n, "ymd")
    ELSE IF name = sGaColon \o sYearMonth THEN Strftime(n, "ym")
    ELSE Strftime(n, "digits")

ParseInit ==
    /\ ConfigInit(1, None, Strftime(1, "y-m-d"), None, {})
    /\ \E dimensions \in Lists(SchemaDimensionNames), metrics \in Lists(SchemaMetricNames),
          tag \in TypeTags :
        /\ report = [dimensions |-> dimensions, metrics |-> metrics]
        /\ dimensions_ref =
              [n \in {sGaColon \o sDate, sGaColon \o sYearMonth, sGaColon \o sCountry} |->
                  IF n = sGaColon \o sCountry THEN tag ELSE "STRING"]
        /\ metrics_ref =
              [n \in {sGaColon \o sSessions, sGaColon \o sBounceRate} |->
                  IF n = sGaColon \o sSessions THEN tag ELSE "PERCENT"]

\* execute() returned a page of one row for the report.
ReceivePage ==
    /\ schema_out # None
    /\ ~exited
    /\ resp = None
    /\ \E n \in 1..MaxDay :
        resp' = Some([nextPageToken |-> None,
                      rows |-> 1,
                      dimensionHeaders |-> report["dimensions"],
                      metricHeaders |-> report["metrics"],
                      data |-> <<[dimensions |->
                                    [i \in 1..Len(report["dimensions"]) |->
                                        RawValue(report["dimensions"][i], n)],
                                  metrics |->
                                    <<[i \in 1..Len(report["metrics"]) |->
                                        RawValue(report["metrics"][i], n)]>>]>>])
    /\ row_i' = 0
    /\ UNCHANGED <<pc, start_date, bookmark, end_date, self_page_size, self_max_records,
                   report, state_filter, api_report_def, page_size, max_records,
                   next_page_token, previous_token, finished, total_records,
                   tries, exc, body, record, error, fetches, seen, fresh, faults>>
    /\ UNCHANGED synthVars

\* Lines 320-377: the next row of the page is parsed and yielded.
ParseResponseRow ==
    /\ resp # None
    /\ ~exited
    /\ row_i < resp[1].rows
    /\ LET r == ParseRow(resp[1].dimensionHeaders, resp[1].metricHeaders,
                         resp[1].data[row_i + 1], dimensions_ref, metrics_ref,
                         start_date, end_date)
       IN  /\ record' = IF r.exited THEN record ELSE Some(r.record)
           /\ exited' = r.exited
           /\ log' = IF r.exited THEN log \cup {"Unsuported GA type"} ELSE log
    /\ row_i' = row_i + 1
    /\ UNCHANGED <<pc, start_date, bookmark, end_date, self_page_size, self_max_records,
                   report, state_filter, api_report_def, page_size, max_records,
                   next_page_token, previous_token, finished, total_records,
                   tries, exc, body, resp, error, fetches, seen, fresh, faults>>
    /\ UNCHANGED <<dimensions_ref, metrics_ref, lookup, schema_out, primary_keys,
                   replication_key, normalized>>

\* The schema is evaluated before any record is retrieved.
EvaluateSchemaFirst ==
    /\ schema_out = None
    /\ EvaluateSchema

ParseNext == EvaluateSchemaFirst \/ ReceivePage \/ ParseResponseRow

ParseSpec == ParseInit /\ [][ParseNext]_vars

(***************************************************************************)
(* Column renaming on its own: the transform is applied to a name, and     *)
(* then again to what it returned, as often as MaxPasses allows.  The      *)
(* names are a namespace prefix, as the API writes it, as the report       *)
(* definition's alias writes it, capitalised, or absent, before a field    *)
(* name in the API's camel case.                                           *)
(***************************************************************************)
sCapitalGaColon == <<"G", "a", ":">>

sPerUser == <<"P", "e", "r", "U", "s", "e", "r">>

NamespacePrefixes == {sGaColon, sGaUnder, sCapitalGaColon, <<>>, <<"_">>}

FieldNames ==
    {sSessions, sSessions \o sPerUser, sDate, sYearMonth, sCountry, sUsers,
     sBounceRate, sGoal \o sOne \o sStarts, sCalcMetric \o sMegaX, sDimension \o sOne,
     sSegment, sMetric \o sOne}

ColumnNames == {prefix \o field : prefix \in NamespacePrefixes, field \in FieldNames}

MaxPasses == 3

NormalizeInit ==
    /\ StreamInit(1, None, FALSE, Strftime(1, "y-m-d"), None, {})
    /\ BaseCatalogs

\* Lines 303-309, called on a name.
NormalizeColname ==
    /\ normalized = None
    /\ \E colname \in ColumnNames :
        normalized' = Some([colname |-> colname,
                            result |-> _normalize_colname(colname),
                            passes |-> 1])
    /\ UNCHANGED <<pagingVars, report, api_report_def, dimensions_ref, metrics_ref,
                   lookup, schema_out, primary_keys, replication_key, log, exited>>

\* Lines 303-309, called on the name the last call returned.
NormalizeAgain ==
    /\ normalized # None
    /\ normalized[1].passes < MaxPasses
    /\ normalized' = Some([colname |-> normalized[1].result,
                           result |-> _normalize_colname(normalized[1].result),
                           passes |-> normalized[1].passes + 1])
    /\ UNCHANGED <<pagingVars, report, api_report_def, dimensions_ref, metrics_ref,
                   lookup, schema_out, primary_keys, replication_key, log, exited>>

NormalizeNext == NormalizeColname \/ NormalizeAgain

NormalizeSpec == NormalizeInit /\ [][NormalizeNext]_vars

(***************************************************************************)
(* Properties of the pagination loop.                                      *)
(***************************************************************************)
Terminated == pc \in {"done", "failed"}

CeilingConfigured == "max_records" \in DOMAIN report \/ self_max_records # None

Ceil(a, b) == (a + b - 1) \div b

Max(a, b) == IF a >= b THEN a ELSE b

\* C1 as stated: whatever the server answers and whether or not a ceiling
\* is configured, the extraction eventually reaches Done or Failed.
C1_AlwaysTerminates == <>Terminated

\* C1 amended: with a max-records ceiling configured (page size >= 1) the
\* extraction eventually reaches Done or Failed.
C1_TerminatesUnderCeiling == CeilingConfigured ~> Terminated

\* The ceiling, not the server, ended the loop: the last cursor was usable.
C1_Witness ==
    /\ pc = "done"
    /\ CeilingConfigured
    /\ Truthy(next_page_token)
    /\ fetches >= 2

\* C2: a response whose non-null cursor equals the cursor sent with its
\* request ends the extraction with the pagination-loop error, whatever the
\* ceiling, and nothing is requested after a failure.
C2_LoopDetection ==
    [][/\ (/\ pc = "parse"
           /\ pc' # "parse"
           /\ resp[1].nextPageToken # None
           /\ resp[1].nextPageToken = body["pageToken"])
          => (pc' = "failed" /\ error' = Some("PaginationLoop") /\ fetches' = fetches)
       /\ pc # "failed"]_vars

\* The same cursor came back twice in a row, on the page that also reached
\* the ceiling: the extraction failed at its second fetch.
C2_Witness ==
    /\ pc = "failed"
    /\ error = Some("PaginationLoop")
    /\ fetches = 2
    /\ max_records # None
    /\ total_records >= max_records[1]

\* C3 as stated: ceiling configured, every cursor new and non-null: the
\* loop stops after exactly ceil(max_records / page_size) fetches.
C3_ExactlyCeilFetches ==
    (pc = "done" /\ fresh /\ max_records # None)
        => fetches = Ceil(max_records[1], page_size)

\* C3 amended: ceiling configured, every cursor new and non-empty: the loop
\* stops after exactly max(1, ceil(max_records / page_size)) fetches, the
\* counter having grown by page_size per response.
C3_CeilFetchesAtLeastOne ==
    (pc = "done" /\ fresh /\ Truthy(next_page_token) /\ max_records # None)
        => /\ fetches = Max(1, Ceil(max_records[1], page_size))
           /\ total_records = fetches * page_size

C3_Witness ==
    /\ pc = "done"
    /\ fresh
    /\ Truthy(next_page_token)
    /\ max_records = Some(MaxMaxRecords)
    /\ page_size = MaxPageSize
    /\ fetches = Ceil(MaxMaxRecords, MaxPageSize)
    /\ fetches >= 2

(***************************************************************************)
(* Properties of the retry wrapper and of the error classification.        *)
(***************************************************************************)
RateReasons == {"userRateLimitExceeded", "rateLimitExceeded"}

C5_Classification ==
    (pc = "failed" /\ exc # None /\ exc[1].type = "HttpError") =>
        LET status == exc[1].status
            reason == exc[1].reason
        IN  /\ error # None
            /\ reason \in RateReasons => error[1] = "RateLimit"
            /\ reason = "quotaExceeded" => error[1] = "QuotaExceeded"
            /\ reason \notin RateReasons \cup {"quotaExceeded"} =>
                /\ status = 400 => error[1] = "InvalidArgument"
                /\ status \in {401, 402} => error[1] = "Authentication"
                /\ status \in {500, 503} => error[1] = "BackendServer"
                /\ status \notin {400, 401, 402, 500, 503} => error[1] = "Unknown"
            /\ row_i = IF resp = None THEN 0 ELSE resp[1].rows

\* A reason of the table takes precedence over the status.
C5_Witness ==
    /\ pc = "failed"
    /\ exc = Some(HttpError(400, "quotaExceeded"))
    /\ error = Some("QuotaExceeded")

(***************************************************************************)
(* Properties of the emitted records.                                      *)
(***************************************************************************)
\* C6: every emitted record carries the date range of the request that
\* produced it: report_start_date is the resolved start (the bookmark if
\* present, else the configured start date, dashed) sent as startDate, and
\* report_end_date is the request's endDate.
C6_RecordCarriesRequestDates ==
    record # None =>
        /\ body["startDate"] = _get_state_filter(bookmark, start_date)
        /\ record[1].report_start_date = body["startDate"]
        /\ record[1].report_end_date = body["endDate"]

(***************************************************************************)
(* Properties of the type inference.                                       *)
(***************************************************************************)
\* C10: a dimension or metric of a pattern rule infers to string whatever
\* the catalog says; any other name the catalog of its kind lists maps
\* INTEGER to integer, FLOAT/PERCENT/TIME to number and any other tag to
\* string; a name of no pattern rule that the catalog lacks ends in the
\* fatal exit and yields no type.
C10_TypeInference ==
    lookup # None =>
        LET l == lookup[1]
            catalog == IF l.type = "dimension" THEN dimensions_ref ELSE metrics_ref
            pattern == IF l.type = "dimension" THEN PatternDimensions ELSE PatternMetrics
        IN  l.type \in {"dimension", "metric"} =>
              /\ l.attribute \in pattern => l.result = "string"
              /\ (l.attribute \notin pattern /\ l.attribute \in DOMAIN catalog) =>
                    /\ catalog[l.attribute] = "INTEGER" => l.result = "integer"
                    /\ catalog[l.attribute] \in {"FLOAT", "PERCENT", "TIME"}
                          => l.result = "number"
                    /\ catalog[l.attribute] \notin {"INTEGER", "FLOAT", "PERCENT", "TIME"}
                          => l.result = "string"
              /\ (l.attribute \notin pattern /\ l.attribute \notin DOMAIN catalog) =>
                    (l.result = "SystemExit" /\ exited)

\* The catalog tags ga:goal1Starts INTEGER and the metric still infers to
\* string.
C10_Witness ==
    /\ lookup # None
    /\ lookup[1].type = "metric"
    /\ lookup[1].attribute = sGaColon \o sGoal \o sOne \o sStarts
    /\ lookup[1].attribute \in DOMAIN metrics_ref
    /\ metrics_ref[lookup[1].attribute] = "INTEGER"
    /\ lookup[1].result = "string"

(***************************************************************************)
(* Properties of the report definition builder.                            *)
(***************************************************************************)
\* What an input name is in colon form: the alias prefix ga_ becomes ga:,
\* a colon-form name stays as it is.
ColonFormOf(name) ==
    IF SubSeq(name, 1, 3) = sGaUnder THEN sGaColon \o SubSeq(name, 4, Len(name))
    ELSE name

\* C8: each filter mapping with K keys becomes a list of K entries in key
\* order, and the "filters" of each entry is a list of exactly one filter
\* that carries the field name with the operator and the value given.
C8_FiltersAreOneElementLists ==
    api_report_def # None =>
        \A key \in {"dimension", "metric"} :
            LET clauses == IF key = "dimension" THEN "dimensionFilterClauses"
                           ELSE "metricFilterClauses"
            IN  clauses \in DOMAIN report =>
                  /\ clauses \in DOMAIN api_report_def
                  /\ Len(api_report_def[clauses]) = Len(report[clauses])
                  /\ \A i \in 1..Len(report[clauses]) :
                        LET filters == api_report_def[clauses][i].filters
                            payload == report[clauses][i][2]
                        IN  /\ filters.py = "list"
                            /\ PyLen(filters) = 1
                            /\ filters.items[1][NameKey(key)] = report[clauses][i][1]
                            /\ \A k \in DOMAIN payload : filters.items[1][k] = payload[k]

\* C9: N dimension and M metric entries in input order with colon-form
\* names, and an optional key in the result exactly when the input has it.
C9_EntriesAndOptionalKeys ==
    api_report_def # None =>
        /\ Len(api_report_def["dimensions"]) = Len(report["dimensions"])
        /\ \A i \in 1..Len(report["dimensions"]) :
              api_report_def["dimensions"][i].name = ColonFormOf(report["dimensions"][i])
        /\ Len(api_report_def["metrics"]) = Len(report["metrics"])
        /\ \A i \in 1..Len(report["metrics"]) :
              api_report_def["metrics"][i].expression = ColonFormOf(report["metrics"][i])
        /\ DOMAIN api_report_def = {"dimensions", "metrics"} \cup (OptionalKeys \cap DOMAIN report)

(***************************************************************************)
(* Properties of the schema property.                                      *)
(***************************************************************************)
Elements(seq) == {seq[i] : i \in 1..Len(seq)}

HasGaDate == sGaColon \o sDate \in Elements(report["dimensions"])

NoDateLike ==
    Elements(report["dimensions"]) \cap {sGaColon \o sDate, sGaColon \o sYearMonth} = {}

EndsWithReportDates(keys) ==
    /\ Len(keys) >= 2
    /\ SubSeq(keys, Len(keys) - 1, Len(keys)) = <<sReportStartDate, sReportEndDate>>

DeclaredNames == {schema_out[1][i].name : i \in 1..Len(schema_out[1])}

\* C7 as stated: with ga:date among the dimensions the replication key is
\* the column of the extra derived-date property (ga_date_dt) and the
\* report dates are no primary keys; with no date-like dimension the report
\* dates end the primary key, no replication key is set and the
\* diagnostic is logged.
C7_ReplicationKeyIsDerivedDate ==
    schema_out # None =>
        /\ HasGaDate =>
              /\ replication_key = Some(sGaDateDt)
              /\ sGaDateDt \in DeclaredNames
              /\ Elements(primary_keys) \cap {sReportStartDate, sReportEndDate} = {}
        /\ NoDateLike =>
              /\ EndsWithReportDates(primary_keys)
              /\ replication_key = None
              /\ "Incremental sync not supported" \in log

\* C7 amended: when the schema is synthesized to the end, ga:date among the
\* dimensions makes ga_date, the column of the ga:date dimension itself,
\* the replication key, ga_date_dt being declared beside it, and keeps the
\* report dates out of the primary key; with no date-like dimension the
\* report dates end the primary key, no replication key is set and the
\* diagnostic is logged.
C7_ReplicationKeyIsGaDate ==
    schema_out # None =>
        /\ HasGaDate =>
              /\ replication_key = Some(sGaDate)
              /\ sGaDate \in Elements(primary_keys)
              /\ {sGaDate, sGaDateDt} \subseteq DeclaredNames
              /\ Elements(primary_keys) \cap {sReportStartDate, sReportEndDate} = {}
        /\ NoDateLike =>
              /\ EndsWithReportDates(primary_keys)
              /\ replication_key = None
              /\ "Incremental sync not supported" \in log
              /\ Len(primary_keys) = Len(report["dimensions"]) + 3

C7_Witness ==
    /\ schema_out # None
    /\ HasGaDate
    /\ ~(sGaColon \o sYearMonth \in Elements(report["dimensions"]))
    /\ replication_key = Some(sGaDate)
    /\ Len(report["dimensions"]) = 2

RequestOutstanding == pc = "call"

\* C12: paging is strictly sequential: at most one request is outstanding,
\* the request for page k+1 is issued only after every record of page k has
\* been handed to the consumer, the first request carries no cursor and each
\* later request carries exactly the cursor the preceding response returned.
C12_SequentialPaging ==
    /\ RequestOutstanding =>
          /\ fetches >= 1
          /\ fetches = 1 => (body["pageToken"] = None /\ resp = None /\ record = None)
          /\ fetches >= 2 =>
                /\ resp # None
                /\ row_i = resp[1].rows
                /\ resp[1].rows > 0 => record # None
                /\ body["pageToken"] = resp[1].nextPageToken
                /\ Truthy(body["pageToken"])
    /\ pc = "parse" => (tries = 0 /\ exc = None /\ row_i <= resp[1].rows)

\* The third request is outstanding: it carries the cursor of the second
\* response, which differs from the first one's, and every row of the
\* second page has been handed over.
C12_Witness ==
    /\ RequestOutstanding
    /\ fetches = 3
    /\ body["pageToken"] = resp[1].nextPageToken
    /\ body["pageToken"] # previous_token
    /\ resp[1].rows = MaxRows
    /\ row_i = MaxRows
    /\ record # None
    /\ tries > 0

(***************************************************************************)
(* Properties of the declared keys and property names.                     *)
(***************************************************************************)
NoRepeats(seq) == \A i, j \in 1..Len(seq) : seq[i] = seq[j] => i = j

\* The elements of sub appear in seq, in the order of sub.
RECURSIVE IsSubsequence(_, _)
IsSubsequence(sub, seq) ==
    IF sub = <<>> THEN TRUE
    ELSE IF seq = <<>> THEN FALSE
    ELSE IF Head(sub) = Head(seq) THEN IsSubsequence(Tail(sub), Tail(seq))
    ELSE IsSubsequence(sub, Tail(seq))

NormalizedDimensions ==
    [i \in 1..Len(report["dimensions"]) |-> _normalize_colname(report["dimensions"][i])]

PropertyNames == [i \in 1..Len(schema_out[1]) |-> schema_out[1][i].name]

\* C13: for every list of distinct dimensions (lists that hold both ga:date
\* and ga:yearMonth included), after any number of evaluations of schema,
\* the primary-key list begins with view_id, contains the normalized column
\* of every dimension in declaration order and no column twice, and no
\* property name is declared twice.
C13_KeysAndPropertiesUnique ==
    (schema_out # None /\ ~exited /\ NoRepeats(report["dimensions"])) =>
        /\ Head(primary_keys) = sViewId
        /\ IsSubsequence(NormalizedDimensions, Tail(primary_keys))
        /\ NoRepeats(primary_keys)
        /\ NoRepeats(PropertyNames)

(***************************************************************************)
(* Properties of the records against the declared schema.                  *)
(***************************************************************************)
\* The JSON type of a Python value.
JsonType(value) ==
    CASE value.py = "int" -> "integer"
      [] value.py = "float" -> "number"
      [] value.py = "str" -> "string"

\* The columns of the report's dimensions and metrics.
FieldColumns ==
    {_normalize_colname(name) :
        name \in Elements(report["dimensions"]) \cup Elements(report["metrics"])}

\* C14: a record emitted by _parse_response for a page whose column headers
\* are the report's dimensions and metrics has only columns the schema
\* declares, has every property the schema declares as required, and the
\* coercion of each dimension and metric value gives the primitive type the
\* schema declares for that column.
C14_RecordConformsToSchema ==
    (record # None /\ schema_out # None) =>
        /\ DOMAIN record[1] \subseteq DeclaredNames
        /\ \A i \in 1..Len(schema_out[1]) :
              schema_out[1][i].required => schema_out[1][i].name \in DOMAIN record[1]
        /\ \A i \in 1..Len(schema_out[1]) :
              (/\ schema_out[1][i].name \in FieldColumns
               /\ schema_out[1][i].name \in DOMAIN record[1]
               /\ schema_out[1][i].type # "date")
                  => JsonType(record[1][schema_out[1][i].name]) = schema_out[1][i].type

\* A record of a report with a month dimension and an integer and a
\* percent metric: the synthesized date columns are in it, the integer
\* metric was coerced with int and the percent with float.
C14_Witness ==
    /\ record # None
    /\ schema_out # None
    /\ report["dimensions"] = <<sGaColon \o sYearMonth, sGaColon \o sCountry>>
    /\ report["metrics"] = <<sGaColon \o sSessions, sGaColon \o sBounceRate>>
    /\ metrics_ref[sGaColon \o sSessions] = "INTEGER"
    /\ record[1][_normalize_colname(sGaColon \o sSessions)].py = "int"
    /\ record[1][_normalize_colname(sGaColon \o sBounceRate)].py = "float"
    /\ record[1][sGaDate] = [py |-> "str", raw |-> Strftime(FirstDayOf(MaxDay), "ymd")]
    /\ record[1][sGaDateDt] = [py |-> "str", raw |-> Strftime(FirstDayOf(MaxDay), "y-m-d")]

====
